---- MODULE Spec2Model ----
(***************************************************************************)
(* State-machine model of the swarm formation controller                  *)
(* (src/src/swarm.py), the robot primitives it calls (src/src/srobot.py)   *)
(* and the environment harness that drives it (src/src/sim.py).            *)
(*                                                                         *)
(* Units.  Angles are whole multiples of pi/2 (FULL_TURN = 2*pi = 4), so   *)
(* that cos and sin are exact integers.  Lengths are centimetres.          *)
(* Translational velocities are cm/s, rotational velocities are angle      *)
(* units per second; the velocity sets are chosen so that the products     *)
(* the code computes (vtras * swarm_size / FPS, 5 * vrot / FPS) are whole  *)
(* numbers.  Time is whole seconds since state_start.                      *)
(*                                                                         *)
(* The physics engine (pymunk), the laser sensor and the fuzzy controller  *)
(* are collaborators outside the repository's sources: what the code reads *)
(* from them (a robot's distance to its slot, the direction to the slot,   *)
(* the fuzzy velocities, a robot being outside the arena, the movement of  *)
(* the pushed target) is drawn from small sets at the point of the read.   *)
(* SwarmController.r_dir, which is written when ROTATION_MOVE completes and *)
(* read nowhere, is left out.                                              *)
(***************************************************************************)
EXTENDS Integers, Sequences, FiniteSets, TLC

VARIABLES
    state,          \* SwarmController.state
    elapsed,        \* time.time() - SwarmController.state_start, saturating
    state_count,    \* SwarmController.state_count
    last_state,     \* SwarmController.last_state
    vtras,          \* SwarmController.vtras: <<>> is None, <<v>> a value
    vrot,           \* SwarmController.vrot:  <<>> is None, <<v>> a value
    position,       \* SwarmController.position (formation center)
    angle,          \* SwarmController.angle (formation heading, unwrapped)
    r_target_pos,   \* SwarmController.r_target_pos: <<>> is None
    task,           \* SwarmController.task
    robots,         \* SwarmController.robots: body.angle, body.velocity, sensor,
                    \* and for how many physics steps the robot's last drive
                    \* has held its velocity
    target_pos,     \* Simulation.target.body.position (owned by the physics)
    pc,             \* where Simulation.step is: "caller" or "loop"
    last_pos,       \* Simulation.step local last_pos
    last_target,    \* Simulation.step local last_target
    result,         \* what the last Simulation.step returned, <<reward, done>>,
                    \* followed by whether it found a robot outside the arena
    call,           \* history: the last call of SwarmController.run
    req_kind,       \* history: kind of the last maneuver request made in IDLE
    req_streak,     \* history: number of consecutive IDLE requests of req_kind
    writes,         \* history: assignments to position and to angle made
                    \* since the last maneuver was accepted
    bench,          \* one SRobot followed call by call: body, sensor, and the
                    \* physics steps taken by the last primitive
    probe           \* the last call made on the bench: what was called, with
                    \* what, and what it gave

vars == <<state, elapsed, state_count, last_state, vtras, vrot, position, angle,
          r_target_pos, task, robots, target_pos, pc, last_pos,
          last_target, result, call, req_kind, req_streak, writes,
          bench, probe>>

ctrl == <<state, elapsed, state_count, last_state, vtras, vrot, position, angle,
          r_target_pos, task>>

-----------------------------------------------------------------------------
(* Program constants *)

FPS == 60
SWARM_SIZE == 3
STALL_SECONDS == 5
COUNT_LIMIT == 150
FULL_TURN == 4
U_SHAPE_ALPHA == 2
SWARM_RADIUS == 23
ROT_FACTOR == 5
APPROACH_SPEED == 10
HOME_NEST_AREA == 25
NEST_CENTER_DX == 12
SWARM_BOX_NEAR == 20
MIN_DIST_CHANGE == 1
TARGET_HALF == 10
TASK_TO_FOOD == 1
TASK_TO_NEST == 2

(* Bounds of the model *)

MaxPos == 1         \* the formation center stays within MaxPos cm of its start
MaxAngle == 2       \* the formation heading stays within -MaxAngle..MaxAngle
MaxCount == 1       \* cap of state_count under Spec
StreakSlack == 3    \* under StreakSpec state_count may pass COUNT_LIMIT by this
MaxHeading == 3     \* a robot's heading stays within -MaxHeading..MaxHeading
TickSeconds == 3    \* the clock is observed every TickSeconds seconds
MaxCell == 2        \* the bench is a grid of cells 0..MaxCell by 0..MaxCell
MaxFine == 4        \* the bench robot's heading stays within -MaxFine..MaxFine
MaxBeams == 33      \* a sensor reading has at most MaxBeams beams
MaxNorm == 12       \* angles handed to a normalizer lie within -MaxNorm..MaxNorm
MaxSwarm == 5       \* formations have at most MaxSwarm robots
AngleScale == 12    \* formation angles are multiples of pi / (4 * AngleScale)

Robots == 0 .. (SWARM_SIZE - 1)

\* SwarmState
NONE == "NONE"
ROTATION_MOVE == "ROTATION_MOVE"
ROTATION_ROT == "ROTATION_ROT"
TRANSLATION_INI == "TRANSLATION_INI"
TRANSLATION_STOP == "TRANSLATION_STOP"

-----------------------------------------------------------------------------
(* Geometry *)

Cos(a) == CASE a % FULL_TURN = 0 -> 1
            [] a % FULL_TURN = 2 -> -1
            [] OTHER -> 0

Sin(a) == CASE a % FULL_TURN = 1 -> 1
            [] a % FULL_TURN = 3 -> -1
            [] OTHER -> 0

Abs(n) == IF n < 0 THEN -n ELSE n

\* (2 * math.pi - U_SHAPE_ALPHA) / (swarm_size - 1)
b_angle == (FULL_TURN - U_SHAPE_ALPHA) \div (SWARM_SIZE - 1)

\* 5 * vrot * (1.0 / constants.FPS)
RotIncrement(v) == (ROT_FACTOR * v) \div FPS

\* a controller that moves the center by one physics step's travel
TransDistanceOneStep(v) == v \div FPS

\* vtras * (swarm_size / constants.FPS)
TransDistance(v) == (v * SWARM_SIZE) \div FPS

goal_pos == <<120, 400>>
start_angle == -1

\* Simulation.get_homebase_pos, Simulation.add_target: one outcome of the
\* random placement, and sample poses <<x, y, rotation>> of the target as it
\* is pushed home.  The rotation is 0 (the box axis-aligned) or 1 (the box
\* turned by pi/4).
TargetPath ==
    << <<120, 300, 0>>, <<120, 302, 0>>, <<152, 400, 0>>, <<135, 400, 0>>, <<125, 400, 0>>,
       <<106, 400, 1>> >>

PathIndex(tp) == CHOOSE k \in DOMAIN TargetPath : TargetPath[k] = tp

\* pymunk Space.step as far as the target goes: it stays, or is pushed to a
\* neighbouring sample position.
PhysMoves(tp, pushes) ==
    IF pushes
    THEN {TargetPath[k] : k \in {j \in DOMAIN TargetPath : Abs(j - PathIndex(tp)) <= 1}}
    ELSE {tp}

-----------------------------------------------------------------------------
(* SRobot primitives: the robot record after the call.  Each steps the       *)
(* physics once and then copies the body pose into the sensor.  A robot is   *)
(* driving from a call of move to the next call that sets its velocity, and  *)
(* held counts the physics steps of that drive; the count is kept when the   *)
(* drive ends and dropped when the robot is commanded again.                 *)

\* SRobot.__init__
NewRobot(a) ==
    [angle |-> a, vel |-> 0, sensor_angle |-> a, driving |-> FALSE, held |-> 0]

\* SRobot.move, the robot's own record
Move(r, v) ==
    [r EXCEPT !.vel = v, !.sensor_angle = r.angle, !.driving = TRUE, !.held = 0]

\* SRobot.stop_move, the robot's own record
StopMove(r) ==
    [r EXCEPT !.vel = 0, !.sensor_angle = r.angle, !.driving = FALSE,
              !.held = IF r.driving THEN r.held ELSE 0]

\* SRobot.move_to, the robot's own record: turn is the angle of the target
\* in the robot's frame, near is dist < 0.5 ** 2
MoveTo(r, turn, near) ==
    [angle |-> r.angle - turn,
     vel |-> IF near THEN 0 ELSE APPROACH_SPEED,
     sensor_angle |-> r.angle - turn,
     driving |-> FALSE,
     held |-> IF r.driving THEN r.held ELSE 0]

\* self.space.step(1 / constants.FPS), which steps every body of the space:
\* each robot that is driving has held its velocity for one step more
PhysStep(rs) ==
    IF \A i \in DOMAIN rs : ~rs[i].driving THEN rs
    ELSE [i \in DOMAIN rs |->
            IF rs[i].driving THEN [rs[i] EXCEPT !.held = @ + 1] ELSE rs[i]]

\* a move that sets the velocity before it steps the physics, as stop_move
\* does
MoveRobotVelocityFirst(rs, i, v) == PhysStep([rs EXCEPT ![i] = Move(rs[i], v)])

\* robots[i].move(v): the step comes first, then the velocity is set
MoveRobot(rs, i, v) == [PhysStep(rs) EXCEPT ![i] = Move(@, v)]

\* robots[i].stop_move(): the velocity is reset, then the step
StopRobot(rs, i) == PhysStep([rs EXCEPT ![i] = StopMove(rs[i])])

\* robots[i].move_to(target_pos): the velocity is set, then the step
MoveToRobot(rs, i, turn, near) ==
    PhysStep([rs EXCEPT ![i] = MoveTo(rs[i], turn, near)])

-----------------------------------------------------------------------------
(* SwarmController *)

\* SwarmController.__get_robot_pos for a formation at pos with heading ang
GetRobotPos(pos, ang, offset) ==
    <<pos[1] + SWARM_RADIUS * Cos(ang + (U_SHAPE_ALPHA \div 2) + offset),
      pos[2] + SWARM_RADIUS * Sin(ang + (U_SHAPE_ALPHA \div 2) + offset)>>

\* SwarmController.__compute_new_pos_for_robot
ComputeNewPos(pos, ang, v, robot_n) ==
    LET old_angle == ang + (U_SHAPE_ALPHA \div 2) + robot_n * b_angle
        d == RotIncrement(v)
        a == IF v > 0 THEN old_angle + d ELSE old_angle - d
    IN  <<pos[1] + SWARM_RADIUS * Cos(a), pos[2] + SWARM_RADIUS * Sin(a)>>

\* the position written by the TRANSLATION_INI branch
NewPosition(pos, ang, v) ==
    <<pos[1] + TransDistance(v) * Cos(ang), pos[2] + TransDistance(v) * Sin(ang)>>

\* a guard that inverts as soon as the counter reaches the limit
InvertsAtLimit(count, st, given) == count >= COUNT_LIMIT /\ st = NONE /\ given

\* the guard of the anti-oscillation inversion
Inverts(count, st, given) == count > COUNT_LIMIT /\ st = NONE /\ given

\* the action after the anti-oscillation guard
EffectiveAction(count, st, given, action) ==
    IF Inverts(count, st, given) THEN 1 - action ELSE action

\* a controller without the stall guard
StalledNever(t) == FALSE

\* the stall test of the ROTATION_MOVE branch
Stalled(t) == t > STALL_SECONDS

\* SwarmController.__unstuck_swarm, the robots
Unstuck(rs, ang) == [i \in Robots |-> [rs[i] EXCEPT !.angle = ang]]

\* the loops of run over the robots, in index order: the robots once the
\* first n of them have been called (one outcome, as a set)

\* for i in range(swarm_size): self.robots[i].move(self.vtras)
RECURSIVE MoveAll(_, _, _)
MoveAll(rs, n, v) ==
    IF n = 0 THEN {rs}
    ELSE {MoveRobot(r, n - 1, v) : r \in MoveAll(rs, n - 1, v)}

\* for i in range(swarm_size): self.robots[i].stop_move()
RECURSIVE StopAll(_, _)
StopAll(rs, n) ==
    IF n = 0 THEN {rs}
    ELSE {StopRobot(r, n - 1) : r \in StopAll(rs, n - 1)}

\* the loop of the rotate branch of IDLE, which stops all the robots once
\* for each slot it computes
RECURSIVE StopAllTimes(_, _)
StopAllTimes(rs, k) ==
    IF k = 0 THEN {rs}
    ELSE UNION {StopAll(r, SWARM_SIZE) : r \in StopAllTimes(rs, k - 1)}

\* the loop of the ROTATION_MOVE branch: a robot at its slot is stopped, the
\* others are sent on
RECURSIVE AdvanceAll(_, _, _, _)
AdvanceAll(rs, n, arr, turn) ==
    IF n = 0 THEN {rs}
    ELSE {IF arr[n - 1] THEN StopRobot(r, n - 1)
          ELSE MoveToRobot(r, n - 1, turn, FALSE) :
            r \in AdvanceAll(rs, n - 1, arr, turn)}

\* the velocities SwarmController.get_avg_vel may return in this state: the
\* fuzzy controller's outputs, kept to those that leave the formation pose
\* within the model's bounds
AvgVels(e) ==
    {v \in e.Vels :
        /\ Abs(NewPosition(position, angle, v[1])[1] - goal_pos[1])
             + Abs(NewPosition(position, angle, v[1])[2] - goal_pos[2]) <= e.maxPos
        /\ Abs(angle + RotIncrement(v[2])) <= MaxAngle}

NoWrites == [position |-> 0, angle |-> 0]

Call(op, given, action, pre, stalled, finished, steps, err) ==
    [op |-> op, given |-> given, action |-> action, pre |-> pre,
     stalled |-> stalled, finished |-> finished, steps |-> steps, err |-> err]

\* a controller that lets a new request cancel the maneuver in flight
RunBusyCancels(given, action) ==
    /\ state # NONE /\ given
    /\ state' = NONE
    /\ UNCHANGED <<elapsed, state_count, last_state, vtras, vrot, position, angle,
                   r_target_pos, task, robots, target_pos, req_kind, req_streak,
                   writes>>
    /\ call' = Call("run", given, action, state, FALSE, 0, 0, FALSE)

\* run(action) with a maneuver in flight: logged and ignored
RunBusy(given, action) ==
    /\ state # NONE /\ given
    /\ UNCHANGED <<ctrl, robots, target_pos, req_kind, req_streak, writes>>
    /\ call' = Call("run", given, action, state, FALSE, 0, 0, FALSE)

\* the IDLE branch
RunIdle(given, action, e, tp) ==
    /\ state = NONE
    /\ \E v \in AvgVels(e) :
        LET act == EffectiveAction(state_count, state, given, action)
            kind == IF act = 0 THEN TRANSLATION_INI ELSE ROTATION_MOVE
            count == IF last_state # kind THEN 0 ELSE state_count + 1
            streak == IF req_kind = <<action>> THEN req_streak + 1 ELSE 1
        IN  /\ vtras' = <<v[1]>>
            /\ vrot' = <<v[2]>>
            /\ IF given /\ act \in {0, 1}
               THEN /\ count <= e.maxCount
                    /\ streak <= e.maxCount + 2
                    /\ state_count' = count
                    /\ last_state' = kind
                    /\ state' = kind
                    /\ elapsed' = 0
                    /\ req_kind' = <<action>>
                    /\ req_streak' = streak
                    /\ writes' = NoWrites
                    /\ IF act = 0
                       THEN /\ UNCHANGED <<r_target_pos, robots>>
                            /\ target_pos' = tp
                            /\ call' = Call("run", given, action, state, FALSE, 0, 0, FALSE)
                       ELSE /\ r_target_pos' =
                                [i \in 1 .. SWARM_SIZE |->
                                    ComputeNewPos(position, angle, v[2], i - 1)]
                            /\ robots' \in StopAllTimes(robots, SWARM_SIZE)
                            /\ target_pos' \in PhysMoves(tp, e.pushes)
                            /\ call' = Call("run", given, action, state, FALSE, 0,
                                            SWARM_SIZE * SWARM_SIZE, FALSE)
               ELSE /\ UNCHANGED <<state, elapsed, state_count, last_state,
                                   r_target_pos, robots, req_kind, req_streak,
                                   writes>>
                    /\ target_pos' = tp
                    /\ call' = Call("run", given, action, state, FALSE, 0, 0, FALSE)
    /\ UNCHANGED <<position, angle, task>>

\* a controller that drives the robots a second time instead of ending
AfterTranslationStopAgain == TRANSLATION_INI

\* a controller that ends a translate maneuver without stopping the robots
AfterTranslationIniSkips == NONE

\* the states the translation branches end in
AfterTranslationIni == TRANSLATION_STOP

AfterTranslationStop == NONE

\* the branches of run() for a maneuver in flight; tp and rs are the target's
\* position and the robots as the call starts

\* the TRANSLATION_INI branch
RunTranslationIni(e, tp, rs) ==
    /\ state = TRANSLATION_INI
    /\ robots' \in MoveAll(rs, SWARM_SIZE, vtras[1])
    /\ position' = NewPosition(position, angle, vtras[1])
    /\ writes' = [writes EXCEPT !.position = @ + 1]
    /\ state' = AfterTranslationIni
    /\ elapsed' = 0
    /\ target_pos' \in PhysMoves(tp, e.pushes)
    /\ call' = Call("run", FALSE, 0, state, FALSE, 0, SWARM_SIZE, FALSE)
    /\ UNCHANGED <<state_count, last_state, vtras, vrot, angle, r_target_pos,
                   task, req_kind, req_streak>>

\* the TRANSLATION_STOP branch
RunTranslationStop(e, tp, rs) ==
    /\ state = TRANSLATION_STOP
    /\ robots' \in StopAll(rs, SWARM_SIZE)
    /\ state' = AfterTranslationStop
    /\ target_pos' \in PhysMoves(tp, e.pushes)
    /\ call' = Call("run", FALSE, 0, state, FALSE, 0, SWARM_SIZE, FALSE)
    /\ UNCHANGED <<elapsed, state_count, last_state, vtras, vrot, position,
                   angle, r_target_pos, task, req_kind, req_streak, writes>>

\* a controller that aligns as soon as all robots but one have arrived
RotationMoveStateEarly(stalled, finished) ==
    IF finished >= SWARM_SIZE - 1 THEN ROTATION_ROT
    ELSE IF stalled THEN NONE
    ELSE ROTATION_MOVE

\* a controller that updates the heading and keeps moving the robots
RotationMoveStateStays(stalled, finished) ==
    IF stalled THEN NONE ELSE ROTATION_MOVE

\* the state the ROTATION_MOVE branch ends in
RotationMoveState(stalled, finished) ==
    IF finished = SWARM_SIZE THEN ROTATION_ROT
    ELSE IF stalled THEN NONE
    ELSE ROTATION_MOVE

\* the ROTATION_MOVE branch: arr[i] is dist < 0.5 ** 2 as robot i is examined,
\* turn the angle of a robot's slot in its frame
RunRotationMove(e, tp, rs) ==
    /\ state = ROTATION_MOVE
    /\ \E arr \in e.Arrivals, turn \in e.Turns :
        LET stalled == Stalled(elapsed)
            base == IF stalled THEN Unstuck(rs, angle) ELSE rs
            finished_tras == Cardinality({i \in Robots : arr[i]})
            all == finished_tras = SWARM_SIZE
            new_angle == angle + RotIncrement(vrot[1])
        IN  \E moved \in AdvanceAll(base, SWARM_SIZE, arr, turn) :
            /\ \A i \in Robots : Abs(moved[i].angle) <= MaxHeading
            /\ robots' = moved
            /\ state' = RotationMoveState(stalled, finished_tras)
            /\ angle' = IF all THEN new_angle ELSE angle
            /\ writes' = IF all THEN [writes EXCEPT !.angle = @ + 1] ELSE writes
            /\ elapsed' = IF all THEN 0 ELSE elapsed
            /\ call' = Call("run", FALSE, 0, state, stalled, finished_tras, SWARM_SIZE, FALSE)
    /\ target_pos' \in PhysMoves(tp, e.pushes)
    /\ UNCHANGED <<state_count, last_state, vtras, vrot, position,
                   r_target_pos, task, req_kind, req_streak>>

\* the ROTATION_ROT branch
RunRotationRot(tp, rs) ==
    /\ state = ROTATION_ROT
    /\ robots' = [i \in Robots |-> [rs[i] EXCEPT !.angle = angle % FULL_TURN]]
    /\ state' = NONE
    /\ target_pos' = tp
    /\ call' = Call("run", FALSE, 0, state, FALSE, 0, 0, FALSE)
    /\ UNCHANGED <<elapsed, state_count, last_state, vtras, vrot, position,
                   angle, r_target_pos, task, req_kind, req_streak, writes>>

\* SwarmController.run(action) for an action the assertion accepts; tp is the
\* target's position as the call starts
RunAction(action, e, tp) ==
    \/ RunBusy(TRUE, action) /\ tp = target_pos
    \/ RunIdle(TRUE, action, e, tp)

\* SwarmController.run() in IDLE
RunNoActionIdle(e, tp) == RunIdle(FALSE, 0, e, tp)

\* SwarmController.run() with a maneuver in flight
RunNoActionBusy(e, tp, rs) ==
    \/ RunTranslationIni(e, tp, rs)
    \/ RunTranslationStop(e, tp, rs)
    \/ RunRotationMove(e, tp, rs)
    \/ RunRotationRot(tp, rs)

\* an assertion that lets one value more through
RecognizedToThree(action) == action \in {0, 1, 2, 3}

\* the assertion of run and of step
Recognized(action) == action \in {0, 1, 2}

\* run(action) for an action the assertion rejects: AssertionError
RunRejected(action) ==
    /\ ~Recognized(action)
    /\ UNCHANGED <<ctrl, robots, target_pos, req_kind, req_streak, writes>>
    /\ call' = Call("run", TRUE, action, state, FALSE, 0, 0, TRUE)

-----------------------------------------------------------------------------
(* Simulation *)

Dist2(p, q) == (p[1] - q[1]) * (p[1] - q[1]) + (p[2] - q[2]) * (p[2] - q[2])

\* sqrt(a2) - sqrt(b2) > MIN_DIST_CHANGE, on the squares
CloserBy(a2, b2) ==
    LET m == MIN_DIST_CHANGE
        k == a2 - b2 - m * m
    IN  k > 0 /\ k * k > 4 * m * m * b2

\* Simulation.__get_done_status
DoneStatus(tp) ==
    Dist2(tp, <<goal_pos[1] + NEST_CENTER_DX, goal_pos[2]>>)
        < HOME_NEST_AREA * HOME_NEST_AREA

\* self.target.point_query(self.goal_pos).distance < 0: the goal point lies
\* strictly inside the target's box, which is axis-aligned or turned by pi/4
BoxInGoal(tp) ==
    LET dx == Abs(goal_pos[1] - tp[1])
        dy == Abs(goal_pos[2] - tp[2])
    IN  IF tp[3] = 0
        THEN dx < TARGET_HALF /\ dy < TARGET_HALF
        ELSE (dx + dy) * (dx + dy) < 2 * TARGET_HALF * TARGET_HALF

\* the branch of Simulation.__get_reward that sets the task
NearTarget(pos, tp) == ~(Dist2(pos, tp) > SWARM_BOX_NEAR * SWARM_BOX_NEAR)

\* Simulation.__get_reward; oob is whether the loop over the robots finds one
\* outside the screen
GetReward(lpos, pos, ltarget, tp, oob) ==
    IF BoxInGoal(tp) THEN 100
    ELSE IF oob THEN -10
    ELSE IF ~NearTarget(pos, tp)
         THEN (IF CloserBy(Dist2(lpos, tp), Dist2(pos, tp)) THEN 1 ELSE -1)
         ELSE (IF CloserBy(Dist2(ltarget, goal_pos), Dist2(tp, goal_pos)) THEN 5 ELSE -3)

\* a reward function that sets the task before its early returns
TaskAfterAlways(old, pos, tp, oob) ==
    IF ~(Dist2(pos, tp) > SWARM_BOX_NEAR * SWARM_BOX_NEAR)
    THEN TASK_TO_NEST ELSE TASK_TO_FOOD

\* the task after Simulation.__get_reward
TaskAfter(old, pos, tp, oob) ==
    IF BoxInGoal(tp) \/ oob THEN old
    ELSE IF NearTarget(pos, tp) THEN TASK_TO_NEST ELSE TASK_TO_FOOD

harness == <<pc, last_pos, last_target, result>>

\* the robot followed call by call is not one of the formation's
unit == <<bench, probe>>

\* Simulation.step(action) up to and including self.swarm.run(action)
StepBegin(action, e) ==
    /\ pc = "caller"
    /\ Recognized(action)
    /\ last_pos' = position
    /\ last_target' = target_pos
    /\ RunAction(action, e, target_pos)
    /\ pc' = "loop"
    /\ UNCHANGED <<result, unit>>

\* Simulation.step(action) for an action the assertion rejects
StepRejected(action) ==
    /\ pc = "caller"
    /\ ~Recognized(action)
    /\ UNCHANGED <<ctrl, robots, target_pos, req_kind, req_streak, writes, harness,
                   unit>>
    /\ call' = Call("step", TRUE, action, state, FALSE, 0, 0, TRUE)

\* one pass of the while loop of Simulation.step: the physics is stepped,
\* then run() is called
StepLoop(e) ==
    /\ pc = "loop"
    /\ state # NONE
    /\ \E tp \in PhysMoves(target_pos, e.pushes) :
            RunNoActionBusy(e, tp, PhysStep(robots))
    /\ UNCHANGED <<harness, unit>>

\* a step that returns without waiting for the maneuver to end
StepEndEarly(e) ==
    /\ pc = "loop"
    /\ \E oob \in e.Oob :
        /\ result' = <<GetReward(last_pos, position, last_target, target_pos, oob),
                       DoneStatus(target_pos), oob>>
        /\ task' = TaskAfter(task, position, target_pos, oob)
    /\ pc' = "caller"
    /\ last_pos' = <<>>
    /\ last_target' = <<>>
    /\ call' = Call("return", FALSE, 0, state, FALSE, 0, 0, FALSE)
    /\ UNCHANGED <<state, elapsed, state_count, last_state, vtras, vrot, position,
                   angle, r_target_pos, robots, target_pos,
                   req_kind, req_streak, writes, unit>>

\* Simulation.step after the loop: reward, done, return
StepEnd(e) ==
    /\ pc = "loop"
    /\ state = NONE
    /\ \E oob \in e.Oob :
        /\ result' = <<GetReward(last_pos, position, last_target, target_pos, oob),
                       DoneStatus(target_pos), oob>>
        /\ task' = TaskAfter(task, position, target_pos, oob)
    /\ pc' = "caller"
    /\ last_pos' = <<>>
    /\ last_target' = <<>>
    /\ call' = Call("return", FALSE, 0, state, FALSE, 0, 0, FALSE)
    /\ UNCHANGED <<state, elapsed, state_count, last_state, vtras, vrot, position,
                   angle, r_target_pos, robots, target_pos,
                   req_kind, req_streak, writes, unit>>

\* a caller of SwarmController.run(action) other than Simulation.step
DirectRun(action, e) ==
    /\ pc = "caller"
    /\ Recognized(action)
    /\ RunAction(action, e, target_pos)
    /\ UNCHANGED <<harness, unit>>

DirectRunRejected(action) ==
    /\ pc = "caller"
    /\ ~Recognized(action)
    /\ RunRejected(action)
    /\ UNCHANGED <<harness, unit>>

\* a caller of SwarmController.run() other than Simulation.step
DirectRunNone(e) ==
    /\ pc = "caller"
    /\ \/ RunNoActionIdle(e, target_pos)
       \/ RunNoActionBusy(e, target_pos, robots)
    /\ UNCHANGED <<harness, unit>>

\* the wall clock advances.  time.time() is read in ROTATION_MOVE only, and
\* state_start is reset on entering it: the advance is modelled there.
Tick ==
    /\ state = ROTATION_MOVE
    /\ elapsed <= STALL_SECONDS
    /\ elapsed' = elapsed + TickSeconds
    /\ call' = Call("tick", FALSE, 0, state, FALSE, 0, 0, FALSE)
    /\ UNCHANGED <<state, state_count, last_state, vtras, vrot, position, angle,
                   r_target_pos, task, robots, target_pos, harness,
                   req_kind, req_streak, writes, unit>>

-----------------------------------------------------------------------------
(* One SRobot on a bench, followed call by call.  Here angles are whole     *)
(* multiples of pi/4 (FINE_TURN = 2*pi = 8) and positions are cells of a    *)
(* quarter of a centimetre.  A vector is kept by its compass coordinates:   *)
(* length times DirVec of its direction, so that signs, zero tests and the  *)
(* sign of a dot product are exact.                                         *)

\* 2 * math.pi, in units of pi/4
FINE_TURN == 2 * FULL_TURN

\* 0.5 cm, in cells: the radius of dist < 0.5 ** 2 in move_to
ARRIVE_RADIUS == 2

\* the three zones of get_velocities
SECTORS == 3

Sign(n) == IF n > 0 THEN 1 ELSE IF n < 0 THEN -1 ELSE 0

\* the direction of heading a: (cos a, sin a) up to a positive factor
DirVec(a) ==
    CASE a % FINE_TURN = 0 -> <<1, 0>>
      [] a % FINE_TURN = 1 -> <<1, 1>>
      [] a % FINE_TURN = 2 -> <<0, 1>>
      [] a % FINE_TURN = 3 -> <<-1, 1>>
      [] a % FINE_TURN = 4 -> <<-1, 0>>
      [] a % FINE_TURN = 5 -> <<-1, -1>>
      [] a % FINE_TURN = 6 -> <<0, -1>>
      [] OTHER -> <<1, -1>>

\* the vectors whose direction is a multiple of pi/4
OnCompass(d) == d[1] = 0 \/ d[2] = 0 \/ Abs(d[1]) = Abs(d[2])

\* Vec2d.angle: atan2(y, x), in (-pi, pi], 0 for the zero vector
VecAngle(d) ==
    IF d = <<0, 0>> THEN 0
    ELSE CHOOSE k \in (1 - FINE_TURN \div 2) .. (FINE_TURN \div 2) :
            DirVec(k) = <<Sign(d[1]), Sign(d[2])>>

\* Vec2d.get_length_sqrd
LengthSqrd(d) == d[1] * d[1] + d[2] * d[2]

\* Vec2d.dot against a direction: its sign
DotSign(d, a) == Sign(d[1] * DirVec(a)[1] + d[2] * DirVec(a)[2])

\* rotation_vector.cpvrotate(Vec2d(s, 0.0)) for a body of heading a
Forward(s, a) == <<s * DirVec(a)[1], s * DirVec(a)[2]>>

\* rotation_vector.cpvunrotate(d).angle for a body of heading a
FrameAngle(d, a) ==
    IF d = <<0, 0>> THEN 0
    ELSE LET m == (VecAngle(d) - a) % FINE_TURN
         IN  IF m > FINE_TURN \div 2 THEN m - FINE_TURN ELSE m

Cells == (0 .. MaxCell) \X (0 .. MaxCell)

\* SRobot.__init__: the body, and the sensor at the body's pose
NewBody(p, a) ==
    [pos |-> p, angle |-> a, vel |-> <<0, 0>>, avel |-> 0,
     sensor |-> <<p, a>>, steps |-> 0]

\* self.sensor.update_position(self.body.position, self.body.angle)
UpdateSensor(b) == [b EXCEPT !.sensor = <<b.pos, b.angle>>]

\* self.space.step(1 / constants.FPS): the body stays in its cell or passes
\* to the next one along its velocity, and keeps its heading or turns one
\* unit along its angular velocity
SpaceStep(b) ==
    {[b EXCEPT !.pos = p, !.angle = a, !.steps = @ + 1] :
        p \in {b.pos, <<b.pos[1] + Sign(b.vel[1]), b.pos[2] + Sign(b.vel[2])>>}
                \cap Cells,
        a \in {c \in {b.angle, b.angle + b.avel} : Abs(c) <= MaxFine}}

\* a primitive starts: no physics step taken yet
Enter(b) == [b EXCEPT !.steps = 0]

\* a move that refreshes the sensor before the body's velocity is applied
SRobot_move_stale(b, v) ==
    {[c EXCEPT !.vel = Forward(v, c.angle)] :
        c \in SpaceStep(UpdateSensor(Enter(b)))}

\* SRobot.move
SRobot_move(b, v) ==
    {UpdateSensor([c EXCEPT !.vel = Forward(v, c.angle)]) :
        c \in SpaceStep(Enter(b))}

\* SRobot.stop_move
SRobot_stop_move(b) ==
    {UpdateSensor(c) :
        c \in SpaceStep([Enter(b) EXCEPT !.vel = <<0, 0>>, !.avel = 0])}

\* target_delta.dot(self.body.rotation_vector) > 0.0 gives 1.0 or -1.0;
\* where the vectors are at a right angle the rounding of the product decides
Directions(d, a) ==
    IF DotSign(d, a) > 0 THEN {1}
    ELSE IF DotSign(d, a) < 0 THEN {-1}
    ELSE {1, -1}

\* SRobot.move_to
SRobot_move_to(b, target) ==
    LET target_delta == <<target[1] - b.pos[1], target[2] - b.pos[2]>>
        turn == FrameAngle(target_delta, b.angle)
        heading == b.angle - turn
        dist == LengthSqrd(target_delta)
        velocities == IF dist < ARRIVE_RADIUS * ARRIVE_RADIUS
                      THEN {<<0, 0>>}
                      ELSE {Forward(APPROACH_SPEED * direction, heading) :
                                direction \in Directions(target_delta, heading)}
    IN  {UpdateSensor(c) :
            c \in UNION {SpaceStep([Enter(b) EXCEPT !.angle = heading, !.vel = v]) :
                            v \in velocities}}

\* SRobot.rotate_to; the threshold 0.09 rad is below one unit of angle
SRobot_rotate_to(b, a, direction) ==
    LET norm_angle == a % FINE_TURN
        norm_self_angle == b.angle % FINE_TURN
        w == IF Abs(norm_self_angle - norm_angle) < 1 THEN 0 ELSE direction
    IN  {UpdateSensor(c) : c \in SpaceStep([Enter(b) EXCEPT !.avel = w])}

\* a normalizer that sends pi to -pi
NormalizeAngleClosedBelow(a) ==
    LET m == a % FINE_TURN
    IN  IF m >= FINE_TURN \div 2 THEN -1 * (FINE_TURN - m) ELSE m

\* SRobot.__normalize_angle
SRobot_normalize_angle(a) ==
    LET m == a % FINE_TURN
    IN  IF m > FINE_TURN \div 2 THEN -1 * (FINE_TURN - m) ELSE m

\* Simulation.__normalize_angle
Simulation_normalize_angle(a) ==
    LET m == a % FINE_TURN
    IN  IF m > FINE_TURN \div 2 THEN -1 * (FINE_TURN - m) ELSE m

\* distances[lo : hi] of a reading of n beams: the indices it holds
Slice(lo, hi, n) == {k \in 0 .. (n - 1) : lo <= k /\ k < hi}

\* the zones of SRobot.get_velocities for a reading of n beams
LeftZone(n) == Slice(0, n \div SECTORS, n)

FrontZone(n) == Slice(n \div SECTORS, (2 * n) \div SECTORS + (n % SECTORS), n)

RightZone(n) == Slice((2 * n) \div SECTORS + (n % SECTORS), n, n)

\* SRobot.get_velocities up to the call of the fuzzy controller: the zones,
\* whether min() raises on an empty zone, and the normalized angle_to_goal
SRobot_get_velocities(b, n, target) ==
    LET target_delta == <<target[1] - b.pos[1], target[2] - b.pos[2]>>
    IN  [left |-> LeftZone(n), front |-> FrontZone(n), right |-> RightZone(n),
         raised |-> {} \in {LeftZone(n), FrontZone(n), RightZone(n)},
         angle_to_goal |->
            SRobot_normalize_angle(b.angle - VecAngle(target_delta))]

\* the angles of the formations laid out are whole multiples of
\* pi / (4 * AngleScale); a formation is laid out where the division by
\* swarm_size - 1 is exact

\* a beta angle that divides the closed arc among all the robots
BAngleAmongAll(swarm_size, alpha) ==
    (FINE_TURN * AngleScale - alpha) \div swarm_size

\* (2 * math.pi - self.U_SHAPE_ALPHA) / (swarm_size - 1) for any formation
BAngle(swarm_size, alpha) ==
    (FINE_TURN * AngleScale - alpha) \div (swarm_size - 1)

\* SwarmController.__add_robots: the angle handed to __get_robot_pos for
\* each robot
SlotOffsets(swarm_size, alpha) ==
    [i \in 0 .. (swarm_size - 1) |-> i * BAngle(swarm_size, alpha)]

Probe(op, in, out) == [op |-> op, in |-> in, out |-> out]

Primitives == {"move", "stop_move", "move_to", "rotate_to"}

\* the primitives called on the bench robot
BenchMove(v) ==
    /\ bench' \in SRobot_move(bench, v)
    /\ probe' = Probe("move", v, 0)

BenchStopMove ==
    /\ bench' \in SRobot_stop_move(bench)
    /\ probe' = Probe("stop_move", 0, 0)

\* probe.in is target_pos - self.body.position as the call starts
BenchMoveTo(target) ==
    /\ OnCompass(<<target[1] - bench.pos[1], target[2] - bench.pos[2]>>)
    /\ bench' \in SRobot_move_to(bench, target)
    /\ Abs(bench'.angle) <= MaxFine
    /\ probe' = Probe("move_to",
                      <<target[1] - bench.pos[1], target[2] - bench.pos[2]>>, 0)

BenchRotateTo(a, direction) ==
    /\ bench' \in SRobot_rotate_to(bench, a, direction)
    /\ probe' = Probe("rotate_to", <<a, direction>>, 0)

\* get_velocities called on the bench robot, whose sensor gives n beams
BenchGetVelocities(n, target) ==
    /\ OnCompass(<<target[1] - bench.pos[1], target[2] - bench.pos[2]>>)
    /\ probe' = Probe("get_velocities", n,
                      SRobot_get_velocities(bench, n, target))
    /\ UNCHANGED bench

\* the harness normalizes an angle, as __get_state_vars does
BenchSimNormalize(a) ==
    /\ probe' = Probe("sim_normalize", a, Simulation_normalize_angle(a))
    /\ UNCHANGED bench

\* the robot normalizes an angle
BenchRobotNormalize(a) ==
    /\ probe' = Probe("robot_normalize", a, SRobot_normalize_angle(a))
    /\ UNCHANGED bench

\* a formation of swarm_size robots and gap alpha is laid out
BenchAddRobots(swarm_size, alpha) ==
    /\ (FINE_TURN * AngleScale - alpha) % (swarm_size - 1) = 0
    /\ probe' = Probe("add_robots", <<swarm_size, alpha>>,
                      SlotOffsets(swarm_size, alpha))
    /\ UNCHANGED bench

\* the formation, the harness and the clock are not involved
OffBench ==
    UNCHANGED <<ctrl, robots, target_pos, harness, call, req_kind, req_streak, writes>>

-----------------------------------------------------------------------------
(* Specifications *)

\* SwarmController.__init__ inside Simulation.reset
ResetInit ==
    /\ state = NONE
    /\ elapsed = 0
    /\ state_count = 0
    /\ last_state = NONE
    /\ vtras = <<>>
    /\ vrot = <<>>
    /\ position = goal_pos
    /\ angle = start_angle
    /\ r_target_pos = <<>>
    /\ task = TASK_TO_FOOD
    /\ robots = [i \in Robots |-> NewRobot(start_angle)]
    /\ target_pos = TargetPath[1]
    /\ pc = "caller"
    /\ last_pos = <<>>
    /\ last_target = <<>>
    /\ result = <<>>
    /\ call = Call("init", FALSE, 0, NONE, FALSE, 0, 0, FALSE)
    /\ req_kind = <<>>
    /\ req_streak = 0
    /\ writes = NoWrites

NoProbe == Probe("none", 0, 0)

Init ==
    /\ ResetInit
    /\ bench = NewBody(<<0, 0>>, start_angle)
    /\ probe = NoProbe

\* the action values callers pass
Actions == 0 .. 3

\* arrival patterns of the robots at their slots
AllArrive == [i \in Robots |-> TRUE]
OneLate == [i \in Robots |-> i # 1]

\* outputs <<vtras, vrot>> of get_avg_vel
Velocities == {<<0, -12>>, <<0, 12>>, <<20, 12>>}

\* the environment of the controller model: the target is not pushed
FullEnv ==
    [Vels |-> Velocities, maxCount |-> MaxCount, maxPos |-> MaxPos,
     Arrivals |-> {AllArrive, OneLate}, Turns |-> {0, 1},
     pushes |-> FALSE, Oob |-> {FALSE}]

\* the controller driven by its callers, and the clock
Next ==
    \/ \E a \in Actions : DirectRun(a, FullEnv)
    \/ \E a \in Actions : DirectRunRejected(a)
    \/ \E a \in Actions : StepRejected(a)
    \/ DirectRunNone(FullEnv)
    \/ Tick

Spec == Init /\ [][Next]_vars

\* Spec with run() called again and again, as the loop of Simulation.step
\* does while a maneuver is in flight, and with the clock advancing
LiveSpec == Spec /\ WF_vars(DirectRunNone(FullEnv)) /\ WF_vars(Tick)

\* the environment of the harness model: the target is pushed, the robots
\* may leave the arena, the formation may translate by 2 cm in a maneuver
HarnessEnv ==
    [Vels |-> {<<0, -12>>, <<0, 12>>, <<40, 12>>}, maxCount |-> MaxCount,
     maxPos |-> MaxPos + 1,
     Arrivals |-> {AllArrive, OneLate}, Turns |-> {0},
     pushes |-> TRUE, Oob |-> BOOLEAN]

\* the controller driven by Simulation.step alone
HarnessNext ==
    \/ \E a \in Actions : StepBegin(a, HarnessEnv)
    \/ \E a \in Actions : StepRejected(a)
    \/ StepLoop(HarnessEnv)
    \/ StepEnd(HarnessEnv)
    \/ Tick

HarnessSpec == Init /\ [][HarnessNext]_vars

\* the environment of the streak model: the formation does not move and the
\* robots arrive at once, and state_count may pass COUNT_LIMIT
StreakEnv ==
    [Vels |-> {<<0, 0>>}, maxCount |-> COUNT_LIMIT + StreakSlack,
     maxPos |-> MaxPos,
     Arrivals |-> {AllArrive}, Turns |-> {0},
     pushes |-> FALSE, Oob |-> {FALSE}]

\* maneuver after maneuver, requested and run to completion
StreakNext ==
    \/ \E a \in {0, 1} : DirectRun(a, StreakEnv)
    \/ DirectRunNone(StreakEnv)

StreakSpec == Init /\ [][StreakNext]_vars

\* a robot placed anywhere on the bench, with any heading
BenchInit ==
    /\ ResetInit
    /\ bench \in {NewBody(p, a) : p \in Cells, a \in -MaxFine .. MaxFine}
    /\ probe = NoProbe

\* the speeds handed to move and the angles handed to rotate_to
DriveSpeeds == {0, 20}

RotateTargets == {-MaxFine, 0, 1}

\* the primitives of one robot, called in any order
RobotNext ==
    \/ \E v \in DriveSpeeds : BenchMove(v) /\ OffBench
    \/ BenchStopMove /\ OffBench
    \/ \E target \in Cells : BenchMoveTo(target) /\ OffBench
    \/ \E a \in RotateTargets, direction \in {-1, 1} :
            BenchRotateTo(a, direction) /\ OffBench

RobotSpec == BenchInit /\ [][RobotNext]_vars

\* the open arcs of the formations laid out: 0, pi/4, ... below 2 * pi
Gaps == {k * AngleScale : k \in 0 .. (FINE_TURN - 1)}

\* the readings, angles and formations the functions are applied to
FunctionNext ==
    \/ \E n \in SECTORS .. MaxBeams, target \in {<<MaxCell \div 2, MaxCell \div 2>>} :
            BenchGetVelocities(n, target) /\ OffBench
    \/ \E a \in -MaxNorm .. MaxNorm : BenchSimNormalize(a) /\ OffBench
    \/ \E a \in -MaxNorm .. MaxNorm : BenchRobotNormalize(a) /\ OffBench
    \/ \E swarm_size \in 2 .. MaxSwarm, alpha \in Gaps :
            BenchAddRobots(swarm_size, alpha) /\ OffBench

FunctionSpec == BenchInit /\ [][FunctionNext]_vars

-----------------------------------------------------------------------------
(* Claims *)

\* the step just taken was a call run() without an action
RanNoAction == call'.op = "run" /\ ~call'.given

\* the step just taken was a call run(action) that the assertion accepted
RanAction == call'.op = "run" /\ call'.given /\ ~call'.err

\* C1: from any state in which a maneuver is in flight, with run() called
\* again and again and the clock advancing, the controller reaches IDLE; a
\* rotate maneuver whose robots do not reach their slots is ended by the
\* stall guard.
C1_ManeuverEnds == (state # NONE) ~> (state = NONE)

\* a rotate maneuver has been ended by the stall guard with a robot still
\* away from its slot
C1_StallEndedRotate ==
    /\ call.op = "run" /\ call.pre = ROTATION_MOVE /\ call.stalled
    /\ call.finished < SWARM_SIZE
    /\ state = NONE

\* C2: a run() call made in ROTATE_MOVE more than 5 seconds after that state
\* was entered returns with the controller in IDLE, with every robot's
\* heading equal to the formation heading, and with the formation heading
\* as it was.  Stated for the stalled maneuver: a robot is still away from
\* its slot.
C2_StallRecovery ==
    [][(state = ROTATION_MOVE /\ elapsed > STALL_SECONDS /\ RanNoAction
            /\ call'.finished < SWARM_SIZE)
        => /\ state' = NONE
           /\ \A i \in Robots : robots'[i].angle = angle'
           /\ angle' = angle]_vars

\* C3: the controller leaves ROTATE_MOVE only on a run() call that finds
\* every robot within the threshold of its slot or that is made more than 5
\* seconds after ROTATE_MOVE was entered; any other step taken in
\* ROTATE_MOVE leaves the state ROTATE_MOVE.
C3_LeavesRotateMove ==
    [][(state = ROTATION_MOVE /\ state' # ROTATION_MOVE)
        => /\ RanNoAction
           /\ call'.finished = SWARM_SIZE \/ elapsed > STALL_SECONDS]_vars

\* a run() call made before the stall limit has found all robots at their
\* slots and has left ROTATE_MOVE
C3_LeftOnArrival ==
    /\ call.op = "run" /\ call.pre = ROTATION_MOVE /\ ~call.stalled
    /\ call.finished = SWARM_SIZE
    /\ state = ROTATION_ROT

\* C4: once a TRANSLATE request has been accepted (TRANSLATE_APPLY), the
\* first run() call moves the controller to TRANSLATE_STOP and the second to
\* IDLE, and nothing but these two calls changes the state on the way.
C4_TranslateSequence ==
    [][/\ (state = TRANSLATION_INI /\ RanNoAction) => state' = TRANSLATION_STOP
       /\ (state = TRANSLATION_STOP /\ RanNoAction) => state' = NONE
       /\ (state \in {TRANSLATION_INI, TRANSLATION_STOP} /\ state' # state)
            => RanNoAction
       /\ (state' = TRANSLATION_STOP /\ state' # state) => state = TRANSLATION_INI
       /\ (state' = TRANSLATION_INI /\ state' # state)
            => (state = NONE /\ RanAction /\ ~Inverts(state_count, state, TRUE)
                    /\ call'.action = 0)
               \/ (state = NONE /\ RanAction /\ Inverts(state_count, state, TRUE)
                    /\ call'.action = 1)]_vars

\* a translate maneuver has run from its request back to IDLE
C4_TranslateDone ==
    /\ call.op = "run" /\ ~call.given /\ call.pre = TRANSLATION_STOP
    /\ state = NONE

\* C5: over a translate maneuver the formation center moves, once, by
\* vtras * swarm_size / FPS along the formation heading, vtras being the
\* value stored by the call that accepted the request, and the heading is
\* left as it was.
C5_TranslateDisplacement ==
    [][/\ (state = TRANSLATION_INI /\ state' = TRANSLATION_STOP)
            => /\ FPS * (position'[1] - position[1])
                    = vtras[1] * SWARM_SIZE * Cos(angle)
               /\ FPS * (position'[2] - position[2])
                    = vtras[1] * SWARM_SIZE * Sin(angle)
       /\ state \in {TRANSLATION_INI, TRANSLATION_STOP}
            => vtras' = vtras /\ angle' = angle
       /\ (state' = TRANSLATION_INI \/ state = TRANSLATION_STOP)
            => position' = position /\ angle' = angle]_vars

\* a translate maneuver with a velocity above zero has run back to IDLE
C5_Translated ==
    /\ call.op = "run" /\ ~call.given /\ call.pre = TRANSLATION_STOP
    /\ state = NONE
    /\ vtras[1] > 0
    /\ position # goal_pos

\* C6: from the acceptance of a maneuver on, the center and the heading are
\* together assigned at most once; the center by a translate maneuver only
\* (in TRANSLATE_APPLY), the heading by a rotate maneuver only (on the call
\* that finds all robots arrived), exactly once when the rotate maneuver
\* completes and not at all while it stays in ROTATE_MOVE.
C6_WriteOncePose ==
    [][/\ writes'.position + writes'.angle <= 1
       /\ writes'.position > 0 => last_state' = TRANSLATION_INI
       /\ writes'.angle > 0 => last_state' = ROTATION_MOVE
       /\ state' = ROTATION_MOVE => writes' = NoWrites
       /\ state' = ROTATION_ROT => writes'.angle = 1
       /\ (state = ROTATION_ROT /\ state' = NONE) => writes'.angle = 1
       /\ position' # position => state = TRANSLATION_INI
       /\ angle' # angle => state = ROTATION_MOVE /\ state' = ROTATION_ROT]_vars

\* a rotate maneuver has completed and has changed the heading
C6_RotateCompleted ==
    /\ call.op = "run" /\ call.pre = ROTATION_ROT
    /\ state = NONE
    /\ writes.angle = 1
    /\ angle # start_angle

\* C7: a call run(action) made while a maneuver is in flight changes nothing
\* of the controller, calls no robot primitive and does not step the
\* physics.
C7_InFlightRejection ==
    [][(state # NONE /\ RanAction)
        => /\ UNCHANGED <<state, elapsed, state_count, last_state, vtras, vrot,
                          position, angle, r_target_pos, task>>
           /\ UNCHANGED <<robots, target_pos>>
           /\ call'.steps = 0]_vars

\* a request has been made, and ignored, during a rotate maneuver
C7_RejectedInFlight ==
    /\ call.op = "run" /\ call.given /\ ~call.err /\ call.action \in {0, 1}
    /\ call.pre = ROTATION_MOVE
    /\ state = ROTATION_MOVE

KindOf(a) == IF a = 0 THEN TRANSLATION_INI ELSE ROTATION_MOVE

\* C9 as claimed: once the same kind has been requested on 150 or more
\* consecutive IDLE entries, a further request of that kind made in IDLE
\* starts the other kind of maneuver.
C9_InvertsFrom150Requests ==
    [][(state = NONE /\ RanAction /\ call'.action \in {0, 1}
            /\ req_kind = <<call'.action>> /\ req_streak >= COUNT_LIMIT)
        => state' = KindOf(1 - call'.action)]_vars

\* C9 as amended: a request made in IDLE starts the other kind of maneuver
\* when state_count is above 150, and the requested kind otherwise.
C9_InvertsAbove150 ==
    [][(state = NONE /\ RanAction /\ call'.action \in {0, 1})
        => state' = KindOf(IF state_count >= COUNT_LIMIT + 1
                           THEN 1 - call'.action ELSE call'.action)]_vars

\* a TRANSLATE request has started a rotate maneuver
C9_Inverted ==
    /\ call.op = "run" /\ call.given /\ call.action = 0 /\ call.pre = NONE
    /\ state = ROTATION_MOVE

\* C10: after a step of the harness, done is true exactly if the squared
\* distance from the target to the center of the goal region is below the
\* squared radius, and when done is true the reward is 100.
C10_DoneAndReward ==
    (pc = "caller" /\ result # <<>>)
        => /\ result[2] =
                (Dist2(target_pos, <<goal_pos[1] + NEST_CENTER_DX, goal_pos[2]>>)
                    < HOME_NEST_AREA * HOME_NEST_AREA)
           /\ result[2] => result[1] = 100

\* C11: when a step returns with done false, its reward is -10 if a robot is
\* outside the arena; otherwise, with the formation farther from the target
\* than the near threshold, +1 if the distance from the formation to the
\* target has decreased over the step by more than the minimum change and -1
\* if not; otherwise +5 if the distance from the target to the goal has
\* decreased over the step by more than the minimum change and -3 if not.
C11_RewardTable ==
    [][(pc = "loop" /\ pc' = "caller" /\ ~result'[2])
        => result'[1] =
            IF result'[3] THEN -10
            ELSE IF Dist2(position', target_pos') > SWARM_BOX_NEAR * SWARM_BOX_NEAR
                 THEN (IF CloserBy(Dist2(last_pos, last_target),
                                   Dist2(position', target_pos'))
                       THEN 1 ELSE -1)
                 ELSE (IF CloserBy(Dist2(last_target, goal_pos),
                                   Dist2(target_pos', goal_pos))
                       THEN 5 ELSE -3)]_vars

\* the sum of the entries of a function over 0 .. n - 1
RECURSIVE SumTo(_, _)
SumTo(f, n) == IF n = 0 THEN 0 ELSE f[n - 1] + SumTo(f, n - 1)

\* C12: for a reading of n beams (n >= 3), get_velocities splits the beams
\* into the zones left, front and right, in this order, which together hold
\* every beam once, of sizes n/3, n/3 + n%3 and n/3 (integer division): none
\* is empty and the remainder goes to the front zone.
C12_SectorPartition ==
    probe.op = "get_velocities"
        => LET n == probe.in
               z == probe.out
           IN  /\ ~z.raised
               /\ z.left \cup z.front \cup z.right = 0 .. (n - 1)
               /\ z.left \cap z.front = {} /\ z.front \cap z.right = {}
               /\ z.left \cap z.right = {}
               /\ \A i \in z.left, j \in z.front, k \in z.right : i < j /\ j < k
               /\ Cardinality(z.left) = n \div SECTORS
               /\ Cardinality(z.front) = (n \div SECTORS) + (n % SECTORS)
               /\ Cardinality(z.right) = n \div SECTORS

\* C13 as claimed: for a formation of N >= 2 robots with open arc alpha, the
\* sum of the robots' slot offsets i * beta, plus alpha, is 2 * pi.
C13_OffsetsSumCloses ==
    probe.op = "add_robots"
        => SumTo(probe.out, probe.in[1]) + probe.in[2] = FINE_TURN * AngleScale

\* C13 as amended: for a formation of N >= 2 robots with open arc alpha, the
\* offset of the last robot's slot, (N - 1) * beta, which is the sum of the
\* N - 1 steps beta between neighbouring slots, plus alpha, is 2 * pi; the
\* first slot is at offset 0.
C13_ArcCloses ==
    probe.op = "add_robots"
        => /\ probe.out[0] = 0
           /\ \A i \in 1 .. (probe.in[1] - 1) :
                probe.out[i] - probe.out[i - 1] = probe.out[1]
           /\ probe.out[probe.in[1] - 1] + probe.in[2] = FINE_TURN * AngleScale

\* the formation as configured, three robots and an open arc of pi, has been
\* laid out
C13_ConfiguredLaidOut ==
    /\ probe.op = "add_robots"
    /\ probe.in = <<SWARM_SIZE, (FINE_TURN \div 2) * AngleScale>>
    /\ probe.out[2] = (FINE_TURN \div 2) * AngleScale

\* C14: the robot's and the harness's normalizer give, for any angle a, an
\* angle in (-pi, pi] that differs from a by a multiple of 2 * pi, and give
\* that same angle when applied to it again.
C14_NormalizeIdempotent ==
    /\ probe.op = "sim_normalize"
        => /\ probe.out > -(FINE_TURN \div 2) /\ probe.out <= FINE_TURN \div 2
           /\ (probe.out - probe.in) % FINE_TURN = 0
           /\ Simulation_normalize_angle(probe.out) = probe.out
    /\ probe.op = "robot_normalize"
        => /\ probe.out > -(FINE_TURN \div 2) /\ probe.out <= FINE_TURN \div 2
           /\ (probe.out - probe.in) % FINE_TURN = 0
           /\ SRobot_normalize_angle(probe.out) = probe.out
    /\ probe.op = "get_velocities"
        => /\ probe.out.angle_to_goal > -(FINE_TURN \div 2)
           /\ probe.out.angle_to_goal <= FINE_TURN \div 2
           /\ SRobot_normalize_angle(probe.out.angle_to_goal)
                = probe.out.angle_to_goal

\* the robot's normalizer has been given 3 * pi and has returned pi
C14_NormalizedToPi ==
    /\ probe.op = "robot_normalize"
    /\ probe.in = FINE_TURN + FINE_TURN \div 2
    /\ probe.out = FINE_TURN \div 2

\* C15: when a primitive of the robot (move, stop_move, move_to, rotate_to)
\* has returned, the sensor holds the body's position and angle, and the
\* primitive has stepped the physics exactly once.
C15_SensorSynchronised ==
    probe.op \in Primitives
        => /\ bench.sensor = <<bench.pos, bench.angle>>
           /\ bench.steps = 1

\* move has returned on a robot that was being driven and was turning
C15_MovedWhileTurning ==
    /\ probe.op = "move" /\ probe.in > 0
    /\ bench.avel # 0
    /\ bench.steps = 1

\* C16: a step of the harness makes one call run(action), then only calls
\* run() without an action, and returns only with the controller in IDLE;
\* the reward and the done flag it returns are computed in that state, in
\* which the return leaves the controller, the formation and the target.
C16_StepRunsOneManeuver ==
    [][/\ (pc = "caller" /\ pc' = "loop")
            => state = NONE /\ RanAction
       /\ (pc = "loop" /\ call'.op = "run") => ~call'.given
       /\ (pc = "loop" /\ pc' = "caller")
            => /\ state = NONE /\ state' = NONE
               /\ position' = position /\ angle' = angle
               /\ target_pos' = target_pos
               /\ result'[2] = DoneStatus(target_pos')
               /\ result'[1] = GetReward(last_pos, position', last_target,
                                         target_pos', result'[3])]_vars

\* a step has returned after a rotate maneuver that took all its calls
C16_SteppedRotate ==
    /\ pc = "caller" /\ call.op = "return" /\ result # <<>>
    /\ state = NONE
    /\ last_state = ROTATION_MOVE
    /\ writes.angle = 1

\* C17: the controller starts in IDLE, and a step changes its state only as
\* IDLE to TRANSLATE_APPLY, IDLE to ROTATE_MOVE, TRANSLATE_APPLY to
\* TRANSLATE_STOP, TRANSLATE_STOP to IDLE, ROTATE_MOVE to ROTATE_ALIGN (all
\* robots arrived), ROTATE_MOVE to IDLE (stall limit passed), ROTATE_ALIGN to
\* IDLE; a call run() leaves the state as it is in IDLE and in ROTATE_MOVE
\* only, so that the three other states last one call run().
C17_TransitionRelation ==
    /\ state = NONE
    /\ [][/\ state' # state
                => <<state, state'>> \in
                    {<<NONE, TRANSLATION_INI>>, <<NONE, ROTATION_MOVE>>,
                     <<TRANSLATION_INI, TRANSLATION_STOP>>,
                     <<TRANSLATION_STOP, NONE>>,
                     <<ROTATION_MOVE, ROTATION_ROT>>, <<ROTATION_MOVE, NONE>>,
                     <<ROTATION_ROT, NONE>>}
          /\ (state = ROTATION_MOVE /\ state' = ROTATION_ROT)
                => call'.finished = SWARM_SIZE
          /\ (state = ROTATION_MOVE /\ state' = NONE)
                => elapsed > STALL_SECONDS
          /\ (RanNoAction /\ state' = state)
                => state \in {NONE, ROTATION_MOVE}]_vars

\* a rotate maneuver has gone through ROTATE_ALIGN back to IDLE
C17_AlignedToIdle ==
    /\ call.op = "run" /\ ~call.given /\ call.pre = ROTATION_ROT
    /\ state = NONE
    /\ last_state = ROTATION_MOVE

\* C18: during a rotate maneuver accepted with rotational velocity vrot, the
\* slot recorded for robot i is the point at the formation radius from the
\* center at angle heading + alpha/2 + i * beta + d, d = 5 * vrot / FPS being
\* the signed increment that is added to the heading when the maneuver
\* completes; in ROTATE_ALIGN the recorded slots are the slots of the new
\* heading.
C18_RotateSlots ==
    /\ state = ROTATION_MOVE
        => \A i \in Robots :
            r_target_pos[i + 1] =
                GetRobotPos(position, angle + RotIncrement(vrot[1]), i * b_angle)
    /\ state = ROTATION_ROT
        => \A i \in Robots :
            r_target_pos[i + 1] = GetRobotPos(position, angle, i * b_angle)

\* C19 as claimed: after every step of the harness the task is
\* return-to-nest if the formation is within the near threshold of the
\* target, and seek-object if it is farther.
C19_TaskFollowsDistance ==
    (pc = "caller" /\ result # <<>>)
        => task = IF Dist2(position, target_pos) > SWARM_BOX_NEAR * SWARM_BOX_NEAR
                  THEN TASK_TO_FOOD ELSE TASK_TO_NEST

\* C19 as amended: a step of the harness that returns neither the goal
\* reward 100 nor the out-of-arena penalty -10 leaves the task
\* return-to-nest if the formation is within the near threshold of the
\* target, and seek-object if it is farther; a step that returns 100 or -10
\* leaves the task as it was.
C19_TaskFollowsDistanceUnlessEarly ==
    [][(pc = "loop" /\ pc' = "caller")
        => task' =
            IF result'[1] \in {100, -10} THEN task
            ELSE IF Dist2(position', target_pos') > SWARM_BOX_NEAR * SWARM_BOX_NEAR
                 THEN TASK_TO_FOOD ELSE TASK_TO_NEST]_vars

\* a step has returned one of the near rewards, with the formation near
\* the target and the task switched to return-to-nest
C19_NearAndSwitched ==
    /\ pc = "caller" /\ result # <<>> /\ result[1] \in {5, -3}
    /\ task = TASK_TO_NEST

\* the larger of two numbers
Max(a, b) == IF a > b THEN a ELSE b

C21_StreakBounded ==
    /\ [](state_count <= COUNT_LIMIT + 1)
    /\ [][(state = NONE /\ state' \in {TRANSLATION_INI, ROTATION_MOVE}
                /\ state' # last_state)
            => state_count' = 0]_vars

\* C22: whenever the controller is in IDLE (initially, after a translate
\* maneuver, after a completed and after a stall-abandoned rotate maneuver),
\* the heading of every robot's body is congruent modulo 2 * pi to the
\* formation heading.
C22_HeadingsAgreeAtIdle ==
    state = NONE
        => \A i \in Robots : (robots[i].angle - angle) % FULL_TURN = 0

\* C23: whenever a call of run has returned with the controller in IDLE
\* after a maneuver (a translate, a completed rotate or a stall-abandoned
\* rotate), the velocity last commanded to every robot is zero.  The
\* controller calls no primitive that commands an angular velocity other
\* than zero, so the commanded velocity is the linear one.
C23_AtRestAtIdle ==
    (state = NONE /\ last_state # NONE /\ call.op = "run")
        => \A i \in Robots : robots[i].vel = 0

\* C24: on every call of run made in IDLE, as get_avg_vel samples the
\* robots' sensors, the angle held by each robot's sensor is the angle of
\* its body (here: up to whole turns), whatever maneuvers came before, a
\* completed rotate and a stall-abandoned rotate included.
C24_SensorsFreshWhenSampled ==
    [][(state = NONE /\ call'.op = "run" /\ ~call'.err)
        => \A i \in Robots :
            (robots[i].sensor_angle - robots[i].angle) % FULL_TURN = 0]_vars

\* C25: in a translate maneuver driven by a step of the harness, every
\* robot, whatever its index, is driving at v_translate when TRANSLATE_APPLY
\* has returned, and when TRANSLATE_STOP has stopped it, it has held that
\* velocity for exactly swarm_size physics steps: the travel of the robot,
\* held * v_translate / FPS, is the displacement v_translate * swarm_size /
\* FPS of the formation center.
C25_TranslateHoldsSwarmSizeSteps ==
    [][/\ (state = TRANSLATION_INI /\ state' = TRANSLATION_STOP)
            => \A i \in Robots :
                robots'[i].driving /\ robots'[i].vel = vtras[1]
       /\ (state = TRANSLATION_STOP /\ state' = NONE)
            => \A i \in Robots :
                /\ ~robots'[i].driving /\ robots'[i].vel = 0
                /\ robots'[i].held = SWARM_SIZE
                /\ robots'[i].held * vtras[1] = TransDistance(vtras[1]) * FPS]_vars

\* a step of the harness has returned after a translate maneuver that moved
\* the formation center
C25_SteppedTranslate ==
    /\ pc = "caller" /\ call.op = "return" /\ result # <<>>
    /\ state = NONE
    /\ last_state = TRANSLATION_INI
    /\ vtras # <<>> /\ vtras[1] > 0
    /\ position # goal_pos
    /\ \A i \in Robots : robots[i].held > 0

====
